---------------------------- MODULE Spec2Model ----------------------------
(***************************************************************************)
(* FTSEMIB overnight TOP3 run-latest script (src/trading_system.py).       *)
(*                                                                         *)
(* One run of main(): the run-window gate, the daily and intraday quote    *)
(* downloads, the dataset build (join, intraday merge, features), the      *)
(* backtest selection, the signal on the last row and the e-mail.          *)
(*                                                                         *)
(* Numbers.  A pandas float is a record [k, n, d]: k = "nan" (NaN / null), *)
(* k = "inf" (n is the sign) or k = "num" (the exact rational n/d, d > 0,  *)
(* in lowest terms).  Arithmetic is exact; NaN and division by zero follow *)
(* IEEE-754 as numpy does.  A calendar date is its proleptic ordinal, an   *)
(* instant is ordinal * 86400 + second of the day, on the Rome clock.      *)
(***************************************************************************)
EXTENDS Integers, Sequences, FiniteSets, TLC

VARIABLES
    pc,            \* position of main()
    env,           \* FORCE_RUN / ENFORCE_RUN_WINDOW / SMTP secrets, read from os.environ
    today_rome,    \* now_rome().date()
    clock,         \* now_rome().time(), second of the day
    fill_method,   \* default of Series.pct_change in the installed pandas
    ftse,          \* result of load_ftsemib_daily
    spy,           \* result of load_aux_daily("SPY")   (None or a frame)
    vix,           \* result of load_aux_daily("^VIX")
    snap,          \* what the downloads returned: the three snapshot frames, and
                   \* whether each daily download raised, was empty or had data
    df,            \* the dataset being built / df_full
    meta,          \* meta dictionary of build_dataset_run_latest
    trades,        \* dates selected by run_backtest
    days,          \* main's data_day_ftse and forecast_day
    signal_label,  \* main's signal_label
    stdout,        \* the lines printed: the skip notice, the signal, the email log
    attempts,      \* yf.download calls made, per fetch
    emails,        \* EmailClient.send calls made
    error          \* exception that ended the run

vars == <<pc, env, today_rome, clock, fill_method, ftse, spy, vix, snap, df,
          meta, trades, days, signal_label, stdout, attempts, emails, error>>

---------------------------------------------------------------------------
(* floats *)

Abs(x) == IF x < 0 THEN -x ELSE x

Sgn(x) == IF x < 0 THEN -1 ELSE IF x > 0 THEN 1 ELSE 0

RECURSIVE Gcd(_, _)
Gcd(a, b) == IF b = 0 THEN a ELSE Gcd(b, a % b)

NaN == [k |-> "nan", n |-> 0, d |-> 1]

Inf(s) == [k |-> "inf", n |-> s, d |-> 1]

Num(n, d) ==
    LET s == IF d < 0 THEN -1 ELSE 1
        g == Gcd(Abs(n), Abs(d))
    IN  [k |-> "num", n |-> (s * n) \div g, d |-> (s * d) \div g]

Flt(n) == Num(n, 1)

isna(x) == x.k = "nan"

notna(x) == ~isna(x)

FSub(a, b) ==
    IF isna(a) \/ isna(b) THEN NaN
    ELSE IF a.k = "inf" THEN (IF b.k = "inf" /\ b.n = a.n THEN NaN ELSE a)
    ELSE IF b.k = "inf" THEN Inf(-b.n)
    ELSE Num(a.n * b.d - b.n * a.d, a.d * b.d)

FAdd(a, b) ==
    IF isna(a) \/ isna(b) THEN NaN
    ELSE IF a.k = "inf" THEN (IF b.k = "inf" /\ b.n # a.n THEN NaN ELSE a)
    ELSE IF b.k = "inf" THEN b
    ELSE Num(a.n * b.d + b.n * a.d, a.d * b.d)

FMul(a, b) ==
    IF isna(a) \/ isna(b) THEN NaN
    ELSE IF a.k = "inf" \/ b.k = "inf"
         THEN (IF Sgn(a.n) * Sgn(b.n) = 0 THEN NaN ELSE Inf(Sgn(a.n) * Sgn(b.n)))
    ELSE Num(a.n * b.n, a.d * b.d)

FDiv(a, b) ==
    IF isna(a) \/ isna(b) THEN NaN
    ELSE IF a.k = "inf"
         THEN (IF b.k = "inf" THEN NaN
               ELSE IF b.n < 0 THEN Inf(-a.n) ELSE Inf(a.n))
    ELSE IF b.k = "inf" THEN Flt(0)
    ELSE IF b.n = 0 THEN (IF a.n = 0 THEN NaN ELSE Inf(Sgn(a.n)))
    ELSE Num(a.n * b.d, a.d * b.n)

\* a < b as Python / numpy compare floats: any comparison with NaN is False
FLt(a, b) ==
    IF isna(a) \/ isna(b) THEN FALSE
    ELSE IF a.k = "inf" THEN a.n = -1 /\ ~(b.k = "inf" /\ b.n = -1)
    ELSE IF b.k = "inf" THEN b.n = 1
    ELSE a.n * b.d < b.n * a.d

FEq(a, b) == notna(a) /\ notna(b) /\ a = b

FLe(a, b) == FLt(a, b) \/ FEq(a, b)

\* max / min of two cells as DataFrame.max(axis=1) takes them: NaN is skipped
FMax2(a, b) == IF isna(a) THEN b ELSE IF isna(b) THEN a ELSE IF FLt(a, b) THEN b ELSE a

FMin2(a, b) == IF isna(a) THEN b ELSE IF isna(b) THEN a ELSE IF FLt(b, a) THEN b ELSE a

---------------------------------------------------------------------------
(* dates and times *)

Weekday(d) == (d + 6) % 7

DateOf(ts) == ts \div 86400

TimeOf(ts) == ts % 86400

At(d, sec) == d * 86400 + sec

HM(h, m) == 3600 * h + 60 * m

---------------------------------------------------------------------------
(* frames: a DataFrame is the sequence of its rows, a row a record that    *)
(* carries its index label in the field date (daily) or ts (intraday)      *)

Last(s) == s[Len(s)]

RECURSIVE InsertByDate(_, _)
InsertByDate(s, r) ==
    IF s = <<>> THEN <<r>>
    ELSE IF Last(s).date <= r.date THEN Append(s, r)
    ELSE Append(InsertByDate(SubSeq(s, 1, Len(s) - 1), r), Last(s))

\* DataFrame.sort_index()
RECURSIVE sort_index(_)
sort_index(s) ==
    IF s = <<>> THEN <<>>
    ELSE InsertByDate(sort_index(SubSeq(s, 1, Len(s) - 1)), Last(s))

HasDate(s, d) == \E i \in 1..Len(s) : s[i].date = d

RowAt(s, d) == s[CHOOSE i \in 1..Len(s) : s[i].date = d]

\* Series.shift(1) / Series.shift(-1) of column c
Shift1(s, c, i) == IF i > 1 THEN s[i - 1][c] ELSE NaN

ShiftM1(s, c, i) == IF i < Len(s) THEN s[i + 1][c] ELSE NaN

OHLCV == {"Open", "High", "Low", "Close", "Volume"}

\* DataFrame.dropna() on the five price columns
dropna(s) == SelectSeq(s, LAMBDA r : \A c \in OHLCV : notna(r[c]))

---------------------------------------------------------------------------
(* LOADERS *)

\* load_ftsemib_daily, the frame it returns for a non-empty download y:
\* y.has_ohl says the open, high and low columns were found, y.has_vol the
\* volume column
load_ftsemib_daily(y) ==
    LET s == sort_index(y.rows)
    IN  IF y.has_ohl
        THEN dropna([i \in 1..Len(s) |->
                 [date |-> s[i].date, Open |-> s[i].Open, High |-> s[i].High,
                  Low |-> s[i].Low, Close |-> s[i].Close,
                  Volume |-> IF y.has_vol THEN s[i].Volume ELSE Flt(0)]])
        ELSE dropna([i \in 1..Len(s) |->
                 [date |-> s[i].date, Close |-> s[i].Close,
                  Open |-> Shift1(s, "Close", i),
                  High |-> FMax2(Shift1(s, "Close", i), s[i].Close),
                  Low |-> FMin2(Shift1(s, "Close", i), s[i].Close),
                  Volume |-> Flt(0)]])

\* load_aux_daily: None for an empty download, else the Close column
load_aux_daily(y) ==
    IF y.kind = "empty" \/ y.rows = <<>>
    THEN [none |-> TRUE, rows |-> <<>>]
    ELSE [none |-> FALSE,
          rows |-> LET s == sort_index(y.rows)
                   IN  [i \in 1..Len(s) |-> [date |-> s[i].date, Close |-> s[i].Close]]]

\* df.join(aux.rename(columns={"Close": col})): the left join on the index;
\* df[col] = np.nan when aux is None
AuxClose(aux, d) ==
    IF ~aux.none /\ HasDate(aux.rows, d) THEN RowAt(aux.rows, d).Close ELSE NaN

JoinAux(f, s, v) ==
    [i \in 1..Len(f) |->
        [date |-> f[i].date, Open |-> f[i].Open, High |-> f[i].High,
         Low |-> f[i].Low, Close |-> f[i].Close, Volume |-> f[i].Volume,
         SPY_Close |-> AuxClose(s, f[i].date),
         VIX_Close |-> AuxClose(v, f[i].date)]]

---------------------------------------------------------------------------
(* _intraday_snapshot *)

RECURSIVE FoldMax(_, _)
FoldMax(s, c) ==
    IF s = <<>> THEN NaN ELSE FMax2(FoldMax(SubSeq(s, 1, Len(s) - 1), c), Last(s)[c])

RECURSIVE FoldMin(_, _)
FoldMin(s, c) ==
    IF s = <<>> THEN NaN ELSE FMin2(FoldMin(SubSeq(s, 1, Len(s) - 1), c), Last(s)[c])

\* Series.sum(): NaN is skipped, the empty sum is 0.0
RECURSIVE FoldSum(_, _)
FoldSum(s, c) ==
    IF s = <<>> THEN Flt(0)
    ELSE IF isna(Last(s)[c]) THEN FoldSum(SubSeq(s, 1, Len(s) - 1), c)
    ELSE FAdd(FoldSum(SubSeq(s, 1, Len(s) - 1), c), Last(s)[c])

NoSnapshot ==
    [source |-> "none", px |-> NaN, ts |-> 0, has_ohlcv |-> FALSE,
     ohlcv |-> [Open |-> NaN, High |-> NaN, Low |-> NaN, Close |-> NaN,
                Volume_raw |-> NaN]]

\* faulty variant: the cut at the run time dropped
UpToRunTime_uncut(rows, rt) == rows

\* the bars of the download that the snapshot keeps: df[df.index <= rt]
UpToRunTime(rows, rt) == SelectSeq(rows, LAMBDA b : b.ts <= rt)

\* y: the download (kind "raise" | "empty" | "frame"); rt: the run instant;
\* tz: seconds the target zone is behind Rome; so, sc: the session in the
\* target zone's seconds of the day
_intraday_snapshot(y, rt, tz, so, sc) ==
    IF y.kind # "frame" \/ y.rows = <<>> THEN NoSnapshot
    ELSE LET cut == UpToRunTime(y.rows, rt)
         IN  IF cut = <<>> THEN NoSnapshot
             ELSE LET ts_used  == Last(cut).ts
                      today    == DateOf(ts_used - tz)
                      df_today == SelectSeq(cut, LAMBDA b :
                                      /\ DateOf(b.ts - tz) = today
                                      /\ so <= TimeOf(b.ts - tz)
                                      /\ TimeOf(b.ts - tz) <= sc)
                  IN  [source |-> "intraday",
                       px |-> Last(cut).Close,
                       ts |-> ts_used,
                       has_ohlcv |-> df_today # <<>>,
                       ohlcv |-> IF df_today = <<>> THEN NoSnapshot.ohlcv
                                 ELSE [Open |-> df_today[1].Open,
                                       High |-> FoldMax(df_today, "High"),
                                       Low |-> FoldMin(df_today, "Low"),
                                       Close |-> Last(df_today).Close,
                                       Volume_raw |-> IF y.has_vol
                                                      THEN FoldSum(df_today, "Volume")
                                                      ELSE NaN]]

\* df.loc[row_ts, col] = value for the columns of upd: an existing row is
\* updated, a missing label is appended as a new row whose other cells are NaN
NaNRow(d) ==
    [date |-> d, Open |-> NaN, High |-> NaN, Low |-> NaN, Close |-> NaN,
     Volume |-> NaN, SPY_Close |-> NaN, VIX_Close |-> NaN]

Patch(r, upd) == [c \in DOMAIN r |-> IF c \in DOMAIN upd THEN upd[c] ELSE r[c]]

SetCells(s, d, upd) ==
    IF HasDate(s, d)
    THEN [i \in 1..Len(s) |-> IF s[i].date = d THEN Patch(s[i], upd) ELSE s[i]]
    ELSE Append(s, Patch(NaNRow(d), upd))

---------------------------------------------------------------------------
(* BUILD DATASET: the features of build_dataset_run_latest                 *)

\* faulty variant: the close of the next row, shift(-1)
gap_open_next_close(s, i) == FSub(FDiv(s[i].Open, ShiftM1(s, "Close", i)), Flt(1))

\* df["Open"] / df["Close"].shift(1) - 1
gap_open(s, i) == FSub(FDiv(s[i].Open, Shift1(s, "Close", i)), Flt(1))

\* Series.ffill(): the last valid observation at or before row i
RECURSIVE Ffill(_, _, _)
Ffill(s, c, i) ==
    IF i = 0 THEN NaN ELSE IF notna(s[i][c]) THEN s[i][c] ELSE Ffill(s, c, i - 1)

\* df[c].pct_change(): pandas before 3.0 forward-fills the column first
\* (fill_method "pad"), pandas 3.0 does not ("none")
pct_change(s, c, i, fm) ==
    IF i = 1 THEN NaN
    ELSE IF fm = "pad"
         THEN FSub(FDiv(Ffill(s, c, i), Ffill(s, c, i - 1)), Flt(1))
         ELSE FSub(FDiv(s[i][c], s[i - 1][c]), Flt(1))

\* the fraction of the Rome session 09:00-17:30 elapsed at the run time
SessionFrac(clk) ==
    LET elapsed == (IF clk < HM(17, 30) THEN clk ELSE HM(17, 30)) - HM(9, 0)
        total   == HM(17, 30) - HM(9, 0)
    IN  IF elapsed <= 0 THEN Flt(0)
        ELSE IF elapsed >= total THEN Flt(1) ELSE Num(elapsed, total)

\* df["Volume_for_z"]: today's intraday volume projected to the full session
Volume_for_z(s, m, today, clk, i) ==
    IF s[i].date = today /\ m.ftse_source = "intraday_synth"
    THEN LET vol_raw == s[i].Volume
             frac    == SessionFrac(clk)
         IN  IF notna(vol_raw) /\ FLt(Flt(0), vol_raw) /\ FLt(Num(5, 100), frac)
             THEN FDiv(vol_raw, frac)
             ELSE vol_raw
    ELSE s[i].Volume

Window == 20

\* the observations of rolling(Window) ending at row i of column col
WindowObs(col, i) ==
    {j \in 1..Len(col) : i - Window < j /\ j <= i /\ notna(col[j])}

RECURSIVE SumOver(_, _)
SumOver(col, J) ==
    IF J = {} THEN Flt(0)
    ELSE LET j == CHOOSE x \in J : TRUE
         IN  FAdd(col[j], SumOver(col, J \ {j}))

\* rolling(Window).mean(): NaN below min_periods = Window observations
rolling_mean(col, i) ==
    LET J == WindowObs(col, i)
    IN  IF Cardinality(J) < Window THEN NaN
        ELSE FDiv(SumOver(col, J), Flt(Cardinality(J)))

\* the square of rolling(Window).std(ddof=0)
rolling_var(col, i) ==
    LET J  == WindowObs(col, i)
        mu == rolling_mean(col, i)
        sq == [j \in 1..Len(col) |-> FMul(FSub(col[j], mu), FSub(col[j], mu))]
    IN  IF Cardinality(J) < Window THEN NaN
        ELSE FDiv(SumOver(sq, J), Flt(Cardinality(J)))

\* a z-score a / sqrt(v) is kept as the pair of its numerator a and the
\* variance v (its value is irrational in general)
ZNaN == [k |-> "nan", a |-> NaN, v |-> NaN]

\* faulty variant: a zero standard deviation read as a z-score of 0
ZDiv_flat_as_zero(a, v) ==
    IF isna(a) \/ isna(v) THEN ZNaN
    ELSE IF v.n = 0 THEN [k |-> "num", a |-> Flt(0), v |-> Flt(1)]
    ELSE [k |-> "num", a |-> a, v |-> v]

ZDiv(a, v) ==
    IF isna(a) \/ isna(v) THEN ZNaN
    ELSE IF v.n = 0
         THEN (IF a.n = 0 THEN ZNaN ELSE [k |-> "inf", a |-> Inf(Sgn(a.n)), v |-> v])
    ELSE [k |-> "num", a |-> a, v |-> v]

\* Series.replace([np.inf, -np.inf], np.nan)
replace_inf(z) == IF z.k = "inf" THEN ZNaN ELSE z

\* (Volume_for_z - vol_ma) / vol_std, infinities replaced by NaN
vol_z(col, i) ==
    replace_inf(ZDiv(FSub(col[i], rolling_mean(col, i)), rolling_var(col, i)))

\* a / sqrt(v) >= qn / qd  (qd > 0), False for NaN
ZGe(z, qn, qd) ==
    /\ z.k = "num"
    /\ LET lhs == z.a.n * z.a.n * qd * qd * z.v.d
           rhs == qn * qn * z.v.n * z.a.d * z.a.d
       IN  IF qn <= 0 THEN z.a.n >= 0 \/ lhs <= rhs
           ELSE z.a.n > 0 /\ lhs >= rhs

ZLt(z, qn, qd) == z.k = "num" /\ ~ZGe(z, qn, qd)

\* the recomputation of today's spy_ret / vix_ret from the intraday price:
\* px_now / last known earlier close - 1
EarlierRows(s, d) == SelectSeq(s, LAMBDA r : r.date < d)

aux_ret(s, c, i, fm, src, today) ==
    LET prev == EarlierRows(s, today)
    IN  IF s[i].date = today /\ src = "intraday"
           /\ notna(Ffill(prev, c, Len(prev))) /\ notna(s[i][c])
        THEN FSub(FDiv(s[i][c], Ffill(prev, c, Len(prev))), Flt(1))
        ELSE pct_change(s, c, i, fm)

\* lines 430-492: the frame with its feature columns
Features(frame, m, today, clk, fm) ==
    LET s   == sort_index(frame)
        vfz == [i \in 1..Len(s) |-> Volume_for_z(s, m, today, clk, i)]
    IN  [i \in 1..Len(s) |->
            [date |-> s[i].date, Open |-> s[i].Open, High |-> s[i].High,
             Low |-> s[i].Low, Close |-> s[i].Close, Volume |-> s[i].Volume,
             SPY_Close |-> s[i].SPY_Close, VIX_Close |-> s[i].VIX_Close,
             Close_prev |-> Shift1(s, "Close", i),
             gap_open |-> gap_open(s, i),
             spy_ret |-> aux_ret(s, "SPY_Close", i, fm, m.spy_source, today),
             vix_ret |-> aux_ret(s, "VIX_Close", i, fm, m.vix_source, today),
             Volume_raw |-> s[i].Volume,
             Volume_for_z |-> vfz[i],
             vol_z |-> vol_z(vfz, i),
             Open_next |-> ShiftM1(s, "Open", i),
             overnight_ret |-> FSub(FDiv(ShiftM1(s, "Open", i), s[i].Close), Flt(1)),
             dow |-> Weekday(s[i].date)]]

\* df.dropna(subset=["Open", "Close", "Open_next", "overnight_ret"])
df_bt(s) ==
    SelectSeq(s, LAMBDA r : /\ notna(r.Open) /\ notna(r.Close)
                            /\ notna(r.Open_next) /\ notna(r.overnight_ret))

---------------------------------------------------------------------------
(* TOP3 pattern and filters *)

ALLOWED_DAYS == {0, 1, 2, 3}

\* faulty variant: the gap band closed at 0.01
match_top3_closed_gap(r) ==
    LET c1 == IF notna(r.spy_ret)
              THEN /\ FLe(Flt(0), r.gap_open) /\ FLe(r.gap_open, Num(1, 100))
                   /\ FLe(Flt(0), r.spy_ret) /\ FLt(r.spy_ret, Num(1, 100))
              ELSE FALSE
        c2 == IF notna(r.vix_ret)
              THEN FLe(Num(-10, 100), r.vix_ret) /\ FLt(r.vix_ret, Num(-5, 100))
              ELSE FALSE
        c3 == IF r.vol_z.k # "nan"
              THEN ZGe(r.vol_z, -3, 2) /\ ZLt(r.vol_z, -1, 2)
              ELSE FALSE
    IN  c1 \/ c2 \/ c3

\* faulty variant: a null gap_open read as 0.0
match_top3_gap_filled(r) ==
    LET g  == IF isna(r.gap_open) THEN Flt(0) ELSE r.gap_open
        c1 == IF notna(r.spy_ret)
              THEN /\ FLe(Flt(0), g) /\ FLt(g, Num(1, 100))
                   /\ FLe(Flt(0), r.spy_ret) /\ FLt(r.spy_ret, Num(1, 100))
              ELSE FALSE
        c2 == IF notna(r.vix_ret)
              THEN FLe(Num(-10, 100), r.vix_ret) /\ FLt(r.vix_ret, Num(-5, 100))
              ELSE FALSE
        c3 == IF r.vol_z.k # "nan"
              THEN ZGe(r.vol_z, -3, 2) /\ ZLt(r.vol_z, -1, 2)
              ELSE FALSE
    IN  c1 \/ c2 \/ c3

match_top3(r) ==
    LET c1 == IF notna(r.spy_ret)
              THEN /\ FLe(Flt(0), r.gap_open) /\ FLt(r.gap_open, Num(1, 100))
                   /\ FLe(Flt(0), r.spy_ret) /\ FLt(r.spy_ret, Num(1, 100))
              ELSE FALSE
        c2 == IF notna(r.vix_ret)
              THEN FLe(Num(-10, 100), r.vix_ret) /\ FLt(r.vix_ret, Num(-5, 100))
              ELSE FALSE
        c3 == IF r.vol_z.k # "nan"
              THEN ZGe(r.vol_z, -3, 2) /\ ZLt(r.vol_z, -1, 2)
              ELSE FALSE
    IN  c1 \/ c2 \/ c3

\* faulty variant: the day-of-week filter dropped
filters_any_day(r) ==
    IF notna(r.spy_ret) /\ FLt(r.spy_ret, Num(-5, 1000)) THEN FALSE ELSE TRUE

\* faulty variant: the exclusion threshold at -0.05
filters_loose_exclusion(r) ==
    IF notna(r.spy_ret) /\ FLt(r.spy_ret, Num(-5, 100)) THEN FALSE
    ELSE IF r.dow \notin ALLOWED_DAYS THEN FALSE
    ELSE TRUE

filters(r) ==
    IF notna(r.spy_ret) /\ FLt(r.spy_ret, Num(-5, 1000)) THEN FALSE
    ELSE IF r.dow \notin ALLOWED_DAYS THEN FALSE
    ELSE TRUE

\* main, lines 749-750
SignalLabel(last) == IF match_top3(last) /\ filters(last) THEN "LONG (overnight)" ELSE "FLAT"

\* next_weekday
RECURSIVE SkipWeekend(_)
SkipWeekend(nd) == IF Weekday(nd) >= 5 THEN SkipWeekend(nd + 1) ELSE nd

\* faulty variant: Saturday taken for a working day
next_weekday_saturday_open(d) ==
    IF Weekday(d + 1) >= 6 THEN d + 2 ELSE d + 1

next_weekday(d) == SkipWeekend(d + 1)

---------------------------------------------------------------------------
(* MAIN: one action per step of main() and build_dataset_run_latest()      *)

Fetches == {"ftse_daily", "spy_daily", "vix_daily",
            "ftse_intraday", "spy_intraday", "vix_intraday"}

NoFrame == [kind |-> "empty", has_vol |-> TRUE, rows |-> <<>>]

MetaInit ==
    [ftse_source |-> "daily", ftse_ts_used |-> 0,
     spy_source |-> "daily", spy_ts_used |-> 0,
     vix_source |-> "daily", vix_ts_used |-> 0]

RunTime == At(today_rome, clock)

RUN_WINDOW_START == HM(17, 33)

RUN_WINDOW_END == HM(17, 55)

\* faulty variant: the window's last instant left out
should_run_now_open_end ==
    IF env.FORCE_RUN THEN TRUE
    ELSE IF ~env.ENFORCE_RUN_WINDOW THEN TRUE
    ELSE clock >= RUN_WINDOW_START /\ clock < RUN_WINDOW_END

should_run_now ==
    IF env.FORCE_RUN THEN TRUE
    ELSE IF ~env.ENFORCE_RUN_WINDOW THEN TRUE
    ELSE clock >= RUN_WINDOW_START /\ clock <= RUN_WINDOW_END

Fail(e) == pc' = "failed" /\ error' = e

\* main, lines 721-724
Gate ==
    /\ pc = "start"
    /\ pc' = IF should_run_now THEN "load_ftse" ELSE "skipped"
    /\ stdout' = IF should_run_now THEN stdout ELSE Append(stdout, [line |-> "[skip]"])
    /\ UNCHANGED <<env, today_rome, clock, fill_method, ftse, spy, vix, snap, df,
                   meta, trades, days, signal_label, attempts, emails, error>>

\* load_ftsemib_daily: one yf.download; an exception of the download
\* propagates, an empty frame raises RuntimeError
\* faulty variant: an empty download carried on as an empty frame
LoadFtsemibDaily_empty_frame(Y) ==
    /\ pc = "load_ftse"
    /\ \E y \in Y :
        /\ attempts' = [attempts EXCEPT !.ftse_daily = @ + 1]
        /\ snap' = [snap EXCEPT !.daily = IF y.kind = "raise" THEN "raise"
                                          ELSE IF y.kind = "empty" \/ y.rows = <<>>
                                               THEN "empty" ELSE "data"]
        /\ IF y.kind = "raise"
           THEN Fail("DownloadError") /\ ftse' = ftse
           ELSE /\ ftse' = IF y.kind = "empty" THEN <<>> ELSE load_ftsemib_daily(y)
                /\ pc' = "load_spy"
                /\ error' = error
    /\ UNCHANGED <<env, today_rome, clock, fill_method, spy, vix, df,
                   meta, trades, days, signal_label, stdout, emails>>

LoadFtsemibDaily(Y) ==
    /\ pc = "load_ftse"
    /\ \E y \in Y :
        /\ attempts' = [attempts EXCEPT !.ftse_daily = @ + 1]
        /\ snap' = [snap EXCEPT !.daily = IF y.kind = "raise" THEN "raise"
                                          ELSE IF y.kind = "empty" \/ y.rows = <<>>
                                               THEN "empty" ELSE "data"]
        /\ IF y.kind = "raise"
           THEN Fail("DownloadError") /\ ftse' = ftse
           ELSE IF y.kind = "empty" \/ y.rows = <<>>
                THEN Fail("RuntimeError") /\ ftse' = ftse
                ELSE /\ ftse' = load_ftsemib_daily(y)
                     /\ pc' = "load_spy"
                     /\ error' = error
    /\ UNCHANGED <<env, today_rome, clock, fill_method, spy, vix, df,
                   meta, trades, days, signal_label, stdout, emails>>

\* faulty variant: an empty SPY download treated like an empty FTSE one
LoadSpyDaily_required(Y) ==
    /\ pc = "load_spy"
    /\ \E y \in Y :
        /\ attempts' = [attempts EXCEPT !.spy_daily = @ + 1]
        /\ snap' = [snap EXCEPT !.spy_daily = IF y.kind = "raise" THEN "raise"
                                              ELSE IF load_aux_daily(y).none
                                                   THEN "empty" ELSE "data"]
        /\ IF y.kind = "raise"
           THEN Fail("DownloadError") /\ spy' = spy
           ELSE IF load_aux_daily(y).none
                THEN Fail("RuntimeError") /\ spy' = spy
                ELSE spy' = load_aux_daily(y) /\ pc' = "load_vix" /\ error' = error
    /\ UNCHANGED <<env, today_rome, clock, fill_method, ftse, vix, df,
                   meta, trades, days, signal_label, stdout, emails>>

\* load_aux_daily("SPY")
LoadSpyDaily(Y) ==
    /\ pc = "load_spy"
    /\ \E y \in Y :
        /\ attempts' = [attempts EXCEPT !.spy_daily = @ + 1]
        /\ snap' = [snap EXCEPT !.spy_daily = IF y.kind = "raise" THEN "raise"
                                              ELSE IF load_aux_daily(y).none
                                                   THEN "empty" ELSE "data"]
        /\ IF y.kind = "raise"
           THEN Fail("DownloadError") /\ spy' = spy
           ELSE spy' = load_aux_daily(y) /\ pc' = "load_vix" /\ error' = error
    /\ UNCHANGED <<env, today_rome, clock, fill_method, ftse, vix, df,
                   meta, trades, days, signal_label, stdout, emails>>

\* load_aux_daily("^VIX")
LoadVixDaily(Y) ==
    /\ pc = "load_vix"
    /\ \E y \in Y :
        /\ attempts' = [attempts EXCEPT !.vix_daily = @ + 1]
        /\ snap' = [snap EXCEPT !.vix_daily = IF y.kind = "raise" THEN "raise"
                                              ELSE IF load_aux_daily(y).none
                                                   THEN "empty" ELSE "data"]
        /\ IF y.kind = "raise"
           THEN Fail("DownloadError") /\ vix' = vix
           ELSE vix' = load_aux_daily(y) /\ pc' = "join" /\ error' = error
    /\ UNCHANGED <<env, today_rome, clock, fill_method, ftse, spy, df,
                   meta, trades, days, signal_label, stdout, emails>>

\* lines 346-364: the joins and the meta dictionary
Join ==
    /\ pc = "join"
    /\ df' = JoinAux(ftse, spy, vix)
    /\ meta' = MetaInit
    /\ pc' = "snap_ftse"
    /\ UNCHANGED <<env, today_rome, clock, fill_method, ftse, spy, vix, snap,
                   trades, days, signal_label, stdout, attempts, emails, error>>

\* lines 366-385: FTSE intraday (Rome 09:00-17:30); the snapshot swallows
\* a failed download
SnapFtse(Y) ==
    /\ pc = "snap_ftse"
    /\ \E y \in Y :
        LET r == _intraday_snapshot(y, RunTime, 0, HM(9, 0), HM(17, 30))
        IN  /\ attempts' = [attempts EXCEPT !.ftse_intraday = @ + 1]
            /\ snap' = [snap EXCEPT !.ftse = y]
            /\ IF r.source = "intraday" /\ r.has_ohlcv /\ DateOf(r.ts) = today_rome
               THEN /\ df' = SetCells(df, today_rome,
                                [Open |-> r.ohlcv.Open, High |-> r.ohlcv.High,
                                 Low |-> r.ohlcv.Low, Close |-> r.ohlcv.Close,
                                 Volume |-> r.ohlcv.Volume_raw])
                    /\ meta' = [meta EXCEPT !.ftse_source = "intraday_synth",
                                            !.ftse_ts_used = r.ts]
               ELSE UNCHANGED <<df, meta>>
    /\ pc' = "snap_spy"
    /\ UNCHANGED <<env, today_rome, clock, fill_method, ftse, spy, vix,
                   trades, days, signal_label, stdout, emails, error>>

\* lines 387-406: SPY intraday (New York 09:30-16:00, six hours behind Rome)
SnapSpy(Y) ==
    /\ pc = "snap_spy"
    /\ \E y \in Y :
        LET r == _intraday_snapshot(y, RunTime, 6 * 3600, HM(9, 30), HM(16, 0))
        IN  /\ attempts' = [attempts EXCEPT !.spy_intraday = @ + 1]
            /\ snap' = [snap EXCEPT !.spy = y]
            /\ IF r.source = "intraday" /\ DateOf(r.ts) = today_rome
               THEN /\ df' = SetCells(df, today_rome, [SPY_Close |-> r.px])
                    /\ meta' = [meta EXCEPT !.spy_source = "intraday",
                                            !.spy_ts_used = r.ts]
               ELSE UNCHANGED <<df, meta>>
    /\ pc' = "snap_vix"
    /\ UNCHANGED <<env, today_rome, clock, fill_method, ftse, spy, vix,
                   trades, days, signal_label, stdout, emails, error>>

\* lines 408-427: VIX intraday
SnapVix(Y) ==
    /\ pc = "snap_vix"
    /\ \E y \in Y :
        LET r == _intraday_snapshot(y, RunTime, 6 * 3600, HM(9, 30), HM(16, 0))
        IN  /\ attempts' = [attempts EXCEPT !.vix_intraday = @ + 1]
            /\ snap' = [snap EXCEPT !.vix = y]
            /\ IF r.source = "intraday" /\ DateOf(r.ts) = today_rome
               THEN /\ df' = SetCells(df, today_rome, [VIX_Close |-> r.px])
                    /\ meta' = [meta EXCEPT !.vix_source = "intraday",
                                            !.vix_ts_used = r.ts]
               ELSE UNCHANGED <<df, meta>>
    /\ pc' = "features"
    /\ UNCHANGED <<env, today_rome, clock, fill_method, ftse, spy, vix,
                   trades, days, signal_label, stdout, emails, error>>

\* lines 429-495
BuildFeatures ==
    /\ pc = "features"
    /\ df' = Features(df, meta, today_rome, clock, fill_method)
    /\ pc' = "backtest"
    /\ UNCHANGED <<env, today_rome, clock, fill_method, ftse, spy, vix, snap,
                   meta, trades, days, signal_label, stdout, attempts, emails, error>>

\* run_backtest: the rows of df_bt that match the pattern and pass the filters
RunBacktest ==
    /\ pc = "backtest"
    /\ trades' = {r.date : r \in {x \in {df_bt(df)[i] : i \in 1..Len(df_bt(df))} :
                                       match_top3(x) /\ filters(x)}}
    /\ pc' = "signal"
    /\ UNCHANGED <<env, today_rome, clock, fill_method, ftse, spy, vix, snap, df,
                   meta, days, signal_label, stdout, attempts, emails, error>>

\* main, lines 744-750: the days and the signal on the last row;
\* df_full.index[-1] raises IndexError on an empty frame
Signal ==
    /\ pc = "signal"
    /\ IF df = <<>>
       THEN Fail("IndexError") /\ UNCHANGED <<days, signal_label>>
       ELSE /\ days' = [data_day_ftse |-> Last(df).date,
                        forecast_day |-> next_weekday(Last(df).date)]
            /\ signal_label' = SignalLabel(Last(df))
            /\ pc' = "print"
            /\ error' = error
    /\ UNCHANGED <<env, today_rome, clock, fill_method, ftse, spy, vix, snap, df,
                   meta, trades, stdout, attempts, emails>>

\* main, lines 759-764
PrintSignal ==
    /\ pc = "print"
    /\ stdout' = Append(stdout, [line |-> "SEGNALE",
                                 data_day_ftse |-> days.data_day_ftse,
                                 forecast_day |-> days.forecast_day,
                                 label |-> signal_label])
    /\ pc' = "email"
    /\ UNCHANGED <<env, today_rome, clock, fill_method, ftse, spy, vix, snap, df,
                   meta, trades, days, signal_label, attempts, emails, error>>

\* faulty variant: an exception of send caught and the run ended normally
SendEmail_swallowing(Y) ==
    /\ pc = "email"
    /\ IF ~env.SMTP_SECRETS
       THEN /\ Fail("SystemExit")
            /\ emails' = emails
            /\ stdout' = Append(stdout, [line |-> "secret SMTP mancanti"])
       ELSE \E y \in Y :
              /\ emails' = emails + 1
              /\ pc' = "done"
              /\ error' = error
              /\ stdout' = IF y = "raise"
                            THEN Append(stdout, [line |-> "[email] Invio"])
                            ELSE stdout \o <<[line |-> "[email] Invio"],
                                             [line |-> "[email] Inviata OK"]>>
    /\ UNCHANGED <<env, today_rome, clock, fill_method, ftse, spy, vix, snap, df,
                   meta, trades, days, signal_label, attempts>>

\* main, line 774: EmailClient() exits when a secret is missing, send()
\* lets an SMTP exception propagate
SendEmail(Y) ==
    /\ pc = "email"
    /\ IF ~env.SMTP_SECRETS
       THEN /\ Fail("SystemExit")
            /\ emails' = emails
            /\ stdout' = Append(stdout, [line |-> "secret SMTP mancanti"])
       ELSE \E y \in Y :
              /\ emails' = emails + 1
              /\ IF y = "raise"
                 THEN /\ Fail("SMTPException")
                      /\ stdout' = Append(stdout, [line |-> "[email] Invio"])
                 ELSE /\ pc' = "done"
                      /\ error' = error
                      /\ stdout' = stdout \o <<[line |-> "[email] Invio"],
                                                [line |-> "[email] Inviata OK"]>>
    /\ UNCHANGED <<env, today_rome, clock, fill_method, ftse, spy, vix, snap, df,
                   meta, trades, days, signal_label, attempts>>

\* the state after the module is imported and main() is entered
InitOf(E) ==
    /\ pc = "start"
    /\ env \in E.envs
    /\ today_rome \in E.todays
    /\ clock \in E.clocks
    /\ fill_method \in E.fills
    /\ ftse = <<>>
    /\ spy = [none |-> TRUE, rows |-> <<>>]
    /\ vix = [none |-> TRUE, rows |-> <<>>]
    /\ snap = [ftse |-> NoFrame, spy |-> NoFrame, vix |-> NoFrame, daily |-> "none",
            spy_daily |-> "none", vix_daily |-> "none"]
    /\ df = <<>>
    /\ meta = MetaInit
    /\ trades = {}
    /\ days = [data_day_ftse |-> 0, forecast_day |-> 0]
    /\ signal_label = "none"
    /\ stdout = <<>>
    /\ attempts = [f \in Fetches |-> 0]
    /\ emails = 0
    /\ error = "none"

---------------------------------------------------------------------------
(* the answers of the quote source that the runs are checked over          *)

\* ordinal of the run's calendar day, a Thursday
RefDay == 28 + 4

\* days of history before the run's day in the short frames
Lookback == 2

\* the calendar days the short frames cover, the run's day last
Days == (today_rome - Lookback)..today_rome

Px(o, h, l, c, v) ==
    [on |-> TRUE, Open |-> o, High |-> h, Low |-> l, Close |-> c, Volume |-> v]

Absent == [on |-> FALSE, Open |-> NaN, High |-> NaN, Low |-> NaN, Close |-> NaN,
           Volume |-> NaN]

BarFlat == Px(Flt(1000), Flt(1010), Flt(990), Flt(1000), Flt(5))

BarUp == Px(Flt(1004), Flt(1010), Flt(990), Flt(1000), Flt(5))

BarZeroClose == Px(Flt(1004), Flt(1010), Flt(0), Flt(0), Flt(5))

BarNoLow == Px(Flt(1000), Flt(1010), NaN, Flt(1000), Flt(5))

\* the rows of the days of D that f switches on, in date order
RECURSIVE RowsOf(_, _)
RowsOf(f, D) ==
    IF D = {} THEN <<>>
    ELSE LET d == CHOOSE x \in D : \A y \in D : x <= y
         IN  (IF f[d].on
              THEN <<[date |-> d, Open |-> f[d].Open, High |-> f[d].High,
                      Low |-> f[d].Low, Close |-> f[d].Close, Volume |-> f[d].Volume]>>
              ELSE <<>>) \o RowsOf(f, D \ {d})

Daily(rows, ohl, vol) ==
    [kind |-> "frame", has_ohl |-> ohl, has_vol |-> vol, rows |-> rows]

Raises == [kind |-> "raise", has_ohl |-> TRUE, has_vol |-> TRUE, rows |-> <<>>]

Empty == [kind |-> "empty", has_ohl |-> TRUE, has_vol |-> TRUE, rows |-> <<>>]

\* an auxiliary daily frame with a close on the days of D: base + step per day
AuxDaily(D, base, step) ==
    Daily(RowsOf([d \in Days |-> IF d \in D
                                 THEN Px(NaN, NaN, NaN, Flt(base + step * (d - today_rome)), NaN)
                                 ELSE Absent], Days), TRUE, TRUE)

\* a one-minute bar at second sec of day d
Minute(d, sec, o, c, v) ==
    [ts |-> At(d, sec), Open |-> Flt(o), High |-> Flt(o + 6), Low |-> Flt(o - 6),
     Close |-> Flt(c), Volume |-> Flt(v)]

Intraday(rows, vol) == [kind |-> "frame", has_vol |-> vol, rows |-> rows]

IntradayRaises == [kind |-> "raise", has_vol |-> TRUE, rows |-> <<>>]

Environments(forces, enforces, secrets) ==
    [FORCE_RUN : forces, ENFORCE_RUN_WINDOW : enforces, SMTP_SECRETS : secrets]

History(D, bar) == RowsOf([d \in Days |-> IF d \in D THEN bar ELSE Absent], Days)

\* FTSE minute bars of the run's day: inside the session before 10:00, and
\* late in the session
FtseMorning == <<Minute(today_rome, HM(9, 30), 1004, 1002, 2)>>

FtseSession == FtseMorning \o <<Minute(today_rome, HM(17, 0), 1002, 1012, 3)>>

AuxNow(c) == <<Minute(today_rome, HM(16, 0), c, c, 1)>>

---------------------------------------------------------------------------
(* Spec: whole runs, with every failure of the collaborators               *)

RunEnv ==
    [envs |-> Environments(BOOLEAN, BOOLEAN, BOOLEAN),
     todays |-> {RefDay, RefDay + 1},
     clocks |-> {HM(10, 0), HM(17, 33) - 1, HM(17, 33), HM(17, 55), HM(17, 55) + 30},
     fills |-> {"pad", "none"}]

RunWorld ==
    [ftse_daily |-> {Raises, Empty,
                     Daily(History(Days \ {today_rome}, BarUp), TRUE, TRUE),
                     Daily(History(Days, BarUp), TRUE, TRUE)},
     spy_daily |-> {Raises, Empty, AuxDaily(Days \ {today_rome}, 1003, 3)},
     vix_daily |-> {Empty, AuxDaily(Days \ {today_rome}, 20, 1)},
     ftse_intraday |-> {IntradayRaises, Intraday(FtseSession, TRUE)},
     spy_intraday |-> {NoFrame, Intraday(AuxNow(1005), TRUE)},
     vix_intraday |-> {NoFrame, Intraday(AuxNow(19), TRUE)},
     smtp |-> {"ok", "raise"}]

Init == InitOf(RunEnv)

Next ==
    \/ Gate
    \/ LoadFtsemibDaily(RunWorld.ftse_daily)
    \/ LoadSpyDaily(RunWorld.spy_daily)
    \/ LoadVixDaily(RunWorld.vix_daily)
    \/ Join
    \/ SnapFtse(RunWorld.ftse_intraday)
    \/ SnapSpy(RunWorld.spy_intraday)
    \/ SnapVix(RunWorld.vix_intraday)
    \/ BuildFeatures
    \/ RunBacktest
    \/ Signal
    \/ PrintSignal
    \/ SendEmail(RunWorld.smtp)

Spec == Init /\ [][Next]_vars

---------------------------------------------------------------------------
(* SpecSignal: main's signal evaluation on every feature row               *)

ZVal(n, d, v) == [k |-> "num", a |-> Num(n, d), v |-> Flt(v)]

GapValues == {NaN, Num(-1, 1000), Flt(0), Num(4, 1000), Num(1, 100), Inf(1)}

SpyValues == {NaN, Num(-1, 100), Num(-5, 1000), Num(-1, 1000), Flt(0), Num(3, 1000),
              Num(1, 100)}

VixValues == {NaN, Num(-11, 100), Num(-10, 100), Num(-7, 100), Num(-5, 100), Flt(0)}

VolZValues == {ZNaN, ZVal(-2, 1, 1), ZVal(-3, 2, 1), ZVal(-1, 1, 1), ZVal(-3, 1, 9),
               ZVal(-1, 2, 1), ZVal(0, 1, 1)}

FeatureRow(d, g, s, v, z) ==
    [date |-> d, Open |-> Flt(1000), High |-> Flt(1010), Low |-> Flt(990),
     Close |-> Flt(1000), Volume |-> Flt(5), SPY_Close |-> NaN, VIX_Close |-> NaN,
     Close_prev |-> NaN, gap_open |-> g, spy_ret |-> s, vix_ret |-> v,
     Volume_raw |-> Flt(5), Volume_for_z |-> Flt(5), vol_z |-> z,
     Open_next |-> NaN, overnight_ret |-> NaN, dow |-> Weekday(d)]

\* main has built df_full and run the backtest; the last row is any feature row
InitSignal ==
    /\ pc = "signal"
    /\ env = [FORCE_RUN |-> TRUE, ENFORCE_RUN_WINDOW |-> FALSE, SMTP_SECRETS |-> TRUE]
    /\ today_rome \in RefDay..(RefDay + 6)
    /\ clock = HM(17, 40)
    /\ fill_method = "pad"
    /\ ftse = <<>>
    /\ spy = [none |-> TRUE, rows |-> <<>>]
    /\ vix = [none |-> TRUE, rows |-> <<>>]
    /\ snap = [ftse |-> NoFrame, spy |-> NoFrame, vix |-> NoFrame, daily |-> "none",
            spy_daily |-> "none", vix_daily |-> "none"]
    /\ \E g \in GapValues, s \in SpyValues, v \in VixValues, z \in VolZValues :
           df = <<FeatureRow(today_rome, g, s, v, z)>>
    /\ meta = MetaInit
    /\ trades = {}
    /\ days = [data_day_ftse |-> 0, forecast_day |-> 0]
    /\ signal_label = "none"
    /\ stdout = <<>>
    /\ attempts = [f \in Fetches |-> 1]
    /\ emails = 0
    /\ error = "none"

NextSignal == Signal \/ PrintSignal

SpecSignal == InitSignal /\ [][NextSignal]_vars

\* the evaluated row, once main has evaluated it
Evaluated == pc \in {"print", "email", "done"}

EvaluatedRow == Last(df)

\* x is a known finite number with lo_n/lo_d <= x < hi_n/hi_d
Within(x, lo_n, lo_d, hi_n, hi_d) ==
    /\ x.k = "num"
    /\ lo_n * x.d <= x.n * lo_d
    /\ x.n * hi_d < hi_n * x.d

\* x is a known finite number below q_n/q_d
Below(x, q_n, q_d) == x.k = "num" /\ x.n * q_d < q_n * x.d

\* the z-score a/sqrt(v) is known and -3/2 <= z < -1/2: z is negative and
\* 1/4 < z^2 <= 9/4
ZWithinBand(z) ==
    /\ z.k = "num"
    /\ z.a.n < 0
    /\ z.v.n * z.a.d * z.a.d < 4 * z.a.n * z.a.n * z.v.d
    /\ 4 * z.a.n * z.a.n * z.v.d <= 9 * z.v.n * z.a.d * z.a.d

GapSpyCondition(r) ==
    /\ Within(r.gap_open, 0, 1, 1, 100)
    /\ Within(r.spy_ret, 0, 1, 1, 100)

VixCondition(r) == Within(r.vix_ret, -10, 100, -5, 100)

VolumeCondition(r) == ZWithinBand(r.vol_z)

SpyExcluded(r) == Below(r.spy_ret, -5, 1000)

\* C1: the signal main evaluates is exactly one label, LONG exactly when a
\* pattern sub-condition holds on known features, spy_ret is not known to
\* be below -0.005 and the day of week is Monday..Thursday, FLAT otherwise:
\* the label is a function of the row alone
C1_LabelIsRuleOfRow ==
    Evaluated =>
        LET r == EvaluatedRow
            long == /\ GapSpyCondition(r) \/ VixCondition(r) \/ VolumeCondition(r)
                    /\ ~SpyExcluded(r)
                    /\ r.dow \in {0, 1, 2, 3}
        IN  /\ signal_label \in {"LONG (overnight)", "FLAT"}
            /\ signal_label = "LONG (overnight)" <=> long

\* the spec's example row gap_open=0.004, spy_ret=0.003, vol_z=0.0, Tuesday is LONG
C1_Witness ==
    /\ Evaluated
    /\ EvaluatedRow.gap_open = Num(4, 1000)
    /\ EvaluatedRow.spy_ret = Num(3, 1000)
    /\ EvaluatedRow.vol_z = ZVal(0, 1, 1)
    /\ EvaluatedRow.dow = 1
    /\ signal_label = "LONG (overnight)"

\* C2: a row whose day of week is outside ALLOWED_DAYS (Friday, Saturday,
\* Sunday) is FLAT whatever its other features are
C2_DisallowedDayIsFlat ==
    (Evaluated /\ EvaluatedRow.dow \notin {0, 1, 2, 3}) => signal_label = "FLAT"

\* a Friday row on which every pattern sub-condition holds is FLAT
C2_Witness ==
    /\ Evaluated
    /\ EvaluatedRow.dow = 4
    /\ GapSpyCondition(EvaluatedRow)
    /\ VixCondition(EvaluatedRow)
    /\ VolumeCondition(EvaluatedRow)
    /\ signal_label = "FLAT"

\* C3: a known spy_ret below -0.005 forces FLAT, also when the vix_ret band
\* or the vol_z band holds and the day of week is allowed
C3_SpyExclusionIsFlat ==
    (Evaluated /\ SpyExcluded(EvaluatedRow)) => signal_label = "FLAT"

\* spy_ret = -0.01 on a Monday..Thursday row with the vix and volume bands true
C3_Witness ==
    /\ Evaluated
    /\ EvaluatedRow.spy_ret = Num(-1, 100)
    /\ VixCondition(EvaluatedRow)
    /\ VolumeCondition(EvaluatedRow)
    /\ EvaluatedRow.dow \in {0, 1, 2, 3}
    /\ signal_label = "FLAT"

\* C4: the evaluation never raises, a sub-condition on a null feature never
\* counts as true (LONG needs a sub-condition whose features are all known),
\* and a null spy_ret does not trigger the exclusion filter
C4_NullNeverSatisfies ==
    /\ (pc = "failed" /\ error = "IndexError") => df = <<>>
    /\ Evaluated =>
        LET r == EvaluatedRow
        IN  /\ signal_label = "LONG (overnight)" =>
                \/ notna(r.gap_open) /\ notna(r.spy_ret) /\ GapSpyCondition(r)
                \/ notna(r.vix_ret) /\ VixCondition(r)
                \/ r.vol_z.k # "nan" /\ VolumeCondition(r)
            /\ (/\ isna(r.spy_ret)
                /\ VixCondition(r) \/ VolumeCondition(r)
                /\ r.dow \in {0, 1, 2, 3}) => signal_label = "LONG (overnight)"

\* rows with null features on both sides: all four null gives FLAT, a null
\* spy_ret beside a true vix band gives LONG
C4_Witness ==
    /\ Evaluated
    /\ isna(EvaluatedRow.spy_ret)
    /\ isna(EvaluatedRow.gap_open)
    /\ isna(EvaluatedRow.vol_z.a)
    /\ \/ isna(EvaluatedRow.vix_ret) /\ signal_label = "FLAT" /\ EvaluatedRow.dow = 0
       \/ VixCondition(EvaluatedRow) /\ signal_label = "LONG (overnight)"

---------------------------------------------------------------------------
(* SpecGap: the dataset build over every short FTSE history                *)

ForcedEnv == Environments({TRUE}, {FALSE}, {TRUE})

GapEnv ==
    [envs |-> ForcedEnv, todays |-> {RefDay}, clocks |-> {HM(10, 0), HM(17, 40)},
     fills |-> {"pad"}]

GapWorld ==
    [ftse_daily |-> {Daily(RowsOf(f, Days), ohl, TRUE) :
                        f \in [Days -> {Absent, BarUp, BarZeroClose, BarNoLow}],
                        ohl \in BOOLEAN},
     spy_daily |-> {AuxDaily(Days \ {today_rome}, 1003, 3)},
     vix_daily |-> {AuxDaily(Days \ {today_rome}, 20, 1)},
     ftse_intraday |-> {NoFrame,
                        Intraday(FtseSession, TRUE),
                        Intraday(FtseMorning, FALSE),
                        Intraday(<<Minute(today_rome - 1, HM(17, 0), 1001, 1003, 4)>>, TRUE),
                        Intraday(<<Minute(today_rome, HM(8, 0), 1001, 1003, 4)>>, TRUE)},
     spy_intraday |-> {NoFrame, Intraday(AuxNow(1005), TRUE)},
     vix_intraday |-> {NoFrame},
     smtp |-> {"ok"}]

InitGap == InitOf(GapEnv)

NextGap ==
    \/ Gate
    \/ LoadFtsemibDaily(GapWorld.ftse_daily)
    \/ LoadSpyDaily(GapWorld.spy_daily)
    \/ LoadVixDaily(GapWorld.vix_daily)
    \/ Join
    \/ SnapFtse(GapWorld.ftse_intraday)
    \/ SnapSpy(GapWorld.spy_intraday)
    \/ SnapVix(GapWorld.vix_intraday)
    \/ BuildFeatures
    \/ RunBacktest
    \/ Signal
    \/ PrintSignal
    \/ SendEmail(GapWorld.smtp)

SpecGap == InitGap /\ [][NextGap]_vars

\* df carries its feature columns
FeaturesBuilt ==
    \/ pc \in {"backtest", "signal", "print", "email", "done"}
    \/ pc = "failed" /\ error \in {"IndexError", "SystemExit", "SMTPException"}

\* the close of the row before row i, null on the first row
PrevClose(i) == IF i > 1 THEN df[i - 1].Close ELSE NaN

\* g is the number open / prev - 1
IsGapOf(g, open, prev) ==
    /\ g.k = "num"
    /\ g.n * prev.n * open.d = (open.n * prev.d - prev.n * open.d) * g.d

\* C6: gap_open(t) is open(t)/close(t-1) - 1 when the previous close is
\* known and non-zero, and null when it is missing (first row) or zero
C6_GapOpenNullOnZeroClose ==
    FeaturesBuilt =>
        \A i \in 1..Len(df) :
            LET prev == PrevClose(i)
            IN  IF prev.k = "num" /\ prev.n # 0
                THEN df[i].Open.k = "num" => IsGapOf(df[i].gap_open, df[i].Open, prev)
                ELSE isna(df[i].gap_open)

\* what the code does: the quotient where the previous close is known and
\* non-zero, null on a missing previous close, an infinity (or NaN for a
\* zero open) on a zero previous close
C6_GapOpenAsBuilt ==
    FeaturesBuilt =>
        \A i \in 1..Len(df) :
            LET prev == PrevClose(i)
            IN  IF prev.k = "num" /\ prev.n # 0
                THEN df[i].Open.k = "num" => IsGapOf(df[i].gap_open, df[i].Open, prev)
                ELSE IF isna(prev) THEN isna(df[i].gap_open)
                ELSE df[i].Open.k = "num" /\ df[i].Open.n > 0 => df[i].gap_open = Inf(1)

\* a built frame with a row after a zero close
C6_Witness ==
    /\ FeaturesBuilt
    /\ \E i \in 2..Len(df) : PrevClose(i) = Flt(0) /\ df[i].Open = Flt(1004)

\* the bars of a downloaded intraday frame stamped at or before the run instant
BarsKnown(y) == {b \in {y.rows[j] : j \in 1..Len(y.rows)} : b.ts <= RunTime}

\* the latest of a non-empty set of bars
Latest(B) == CHOOSE b \in B : \A c \in B : c.ts <= b.ts

\* the known FTSE bars of the run's day inside the Rome session
FtseSessionKnown ==
    {b \in BarsKnown(snap.ftse) :
        /\ DateOf(b.ts) = today_rome
        /\ HM(9, 0) <= TimeOf(b.ts) /\ TimeOf(b.ts) <= HM(17, 30)}

\* C8: no look-ahead.  gap_open(t) of the built frame is what the build
\* yields on the frame cut after t, so no row after t enters it; and what
\* the intraday snapshots merged into today's row comes from bars stamped
\* at or before the run instant only
C8_NoLookAhead ==
    FeaturesBuilt =>
        /\ \A i \in 1..Len(df) :
               Features(SubSeq(df, 1, i), meta, today_rome, clock, fill_method)[i].gap_open
                   = df[i].gap_open
        /\ meta.ftse_source = "intraday_synth" =>
               /\ meta.ftse_ts_used <= RunTime
               /\ FtseSessionKnown # {}
               /\ RowAt(df, today_rome).Close = Latest(FtseSessionKnown).Close
               /\ \E b \in FtseSessionKnown : RowAt(df, today_rome).High = b.High
               /\ \E b \in FtseSessionKnown : RowAt(df, today_rome).Low = b.Low
        /\ meta.spy_source = "intraday" =>
               /\ meta.spy_ts_used <= RunTime
               /\ RowAt(df, today_rome).SPY_Close = Latest(BarsKnown(snap.spy)).Close
        /\ meta.vix_source = "intraday" =>
               /\ meta.vix_ts_used <= RunTime
               /\ RowAt(df, today_rome).VIX_Close = Latest(BarsKnown(snap.vix)).Close

\* a built frame of three rows whose middle gap_open is known while the
\* last row's close differs from the first's, today's row merged from an
\* intraday frame that also holds a bar stamped after the run instant
C8_Witness ==
    /\ FeaturesBuilt
    /\ Len(df) = 3
    /\ df[2].gap_open.k = "num"
    /\ df[3].Close # df[1].Close
    /\ meta.ftse_source = "intraday_synth"
    /\ \E j \in 1..Len(snap.ftse.rows) : snap.ftse.rows[j].ts > RunTime

---------------------------------------------------------------------------
(* SpecAux: the dataset build over auxiliary histories with missing days   *)

AuxEnv ==
    [envs |-> ForcedEnv, todays |-> {RefDay}, clocks |-> {HM(17, 40)},
     fills |-> {"pad", "none"}]

AuxWorld ==
    [ftse_daily |-> {Daily(History(Days, BarUp), TRUE, TRUE),
                     Daily(History(Days \ {today_rome}, BarUp), TRUE, TRUE),
                     Daily(History(Days \ {today_rome - 1}, BarUp), TRUE, TRUE)},
     spy_daily |-> {Empty} \cup {AuxDaily(D, 1006, 3) : D \in (SUBSET Days) \ {{}}},
     vix_daily |-> {Empty, AuxDaily(Days, 20, 1), AuxDaily(Days \ {today_rome - 1}, 20, 1)},
     ftse_intraday |-> {NoFrame, Intraday(FtseMorning, TRUE)},
     spy_intraday |-> {NoFrame, Intraday(AuxNow(1010), TRUE)},
     vix_intraday |-> {NoFrame, Intraday(AuxNow(19), TRUE)},
     smtp |-> {"ok"}]

InitAux == InitOf(AuxEnv)

NextAux ==
    \/ Gate
    \/ LoadFtsemibDaily(AuxWorld.ftse_daily)
    \/ LoadSpyDaily(AuxWorld.spy_daily)
    \/ LoadVixDaily(AuxWorld.vix_daily)
    \/ Join
    \/ SnapFtse(AuxWorld.ftse_intraday)
    \/ SnapSpy(AuxWorld.spy_intraday)
    \/ SnapVix(AuxWorld.vix_intraday)
    \/ BuildFeatures
    \/ RunBacktest
    \/ Signal
    \/ PrintSignal
    \/ SendEmail(AuxWorld.smtp)

SpecAux == InitAux /\ [][NextAux]_vars

\* the auxiliary close the sources hold for calendar date d: the intraday
\* price on the run's day when one was merged, else the daily close
SourceClose(aux, src, y, d) ==
    IF d = today_rome /\ src = "intraday" THEN Latest(BarsKnown(y)).Close
    ELSE AuxClose(aux, d)

\* r is the number c / p - 1
IsReturnOf(r, c, p) ==
    /\ r.k = "num"
    /\ r.n * p.n * c.d = (c.n * p.d - p.n * c.d) * r.d

\* column close / return of the frame hold the claim for one auxiliary: the
\* closes are those of the same calendar date on every date of the primary
\* daily series, a return between two known closes is their quotient - 1,
\* and a close missing on one date between two known ones leaves the return
\* null there, not zero, and known on the next date
AuxReturnByDate(close, ret, aux, src, y) ==
    /\ \A i \in 1..Len(df) :
           (HasDate(ftse, df[i].date) \/ (df[i].date = today_rome /\ src = "intraday"))
               => df[i][close] = SourceClose(aux, src, y, df[i].date)
    /\ \A i \in 2..Len(df) :
           (df[i][close].k = "num" /\ df[i - 1][close].k = "num" /\ df[i - 1][close].n # 0)
               => IsReturnOf(df[i][ret], df[i][close], df[i - 1][close])
    /\ \A i \in 2..(Len(df) - 1) :
           (isna(df[i][close]) /\ notna(df[i - 1][close]) /\ notna(df[i + 1][close]))
               => /\ isna(df[i][ret])
                  /\ df[i][ret] # Flt(0)
                  /\ notna(df[i + 1][ret])

\* C5: the auxiliary return of every date is computed from the auxiliary
\* closes aligned by calendar date; a close missing on exactly one date t
\* leaves the return null on t (not zero) and not null on the next date
C5_AuxReturnNullOnlyOnGap ==
    FeaturesBuilt =>
        /\ AuxReturnByDate("SPY_Close", "spy_ret", spy, meta.spy_source, snap.spy)
        /\ AuxReturnByDate("VIX_Close", "vix_ret", vix, meta.vix_source, snap.vix)

\* the same claim in builds whose pandas forward-fills in pct_change
C5_GapUnderPad == fill_method = "pad" => C5_AuxReturnNullOnlyOnGap

\* the same claim in builds whose pandas does not fill in pct_change
C5_GapUnderNoFill == fill_method = "none" => C5_AuxReturnNullOnlyOnGap

\* a built frame of three dates whose SPY close is missing on the middle one
C5_Witness ==
    /\ FeaturesBuilt
    /\ Len(df) = 3
    /\ notna(df[1].SPY_Close) /\ isna(df[2].SPY_Close) /\ notna(df[3].SPY_Close)

---------------------------------------------------------------------------
(* SpecVolume: the dataset build over histories as long as the z-score     *)
(* window                                                                  *)

\* rows of history beyond the rolling window in the longest frame
ExtraRows == 1

\* n daily bars ending the day before the run's day, volume base except x
\* on the p-th bar (p = 0: on none)
VolumeHistory(n, base, p, x) ==
    [i \in 1..n |->
        [date |-> today_rome - n - 1 + i, Open |-> Flt(1004), High |-> Flt(1010),
         Low |-> Flt(990), Close |-> Flt(1000),
         Volume |-> IF i = p THEN Flt(x) ELSE Flt(base)]]

VolumeEnv ==
    [envs |-> ForcedEnv, todays |-> {RefDay}, clocks |-> {HM(10, 0), HM(17, 40)},
     fills |-> {"pad"}]

VolumeWorld ==
    [ftse_daily |-> {Daily(VolumeHistory(n, base, p, 9), TRUE, vol) :
                        n \in (Window - 1)..(Window + ExtraRows),
                        base \in {0, 5},
                        p \in {0, 1, 2, Window - 1, Window, Window + ExtraRows},
                        vol \in BOOLEAN},
     spy_daily |-> {Empty},
     vix_daily |-> {Empty},
     ftse_intraday |-> {NoFrame, Intraday(FtseMorning, TRUE), Intraday(FtseMorning, FALSE)},
     spy_intraday |-> {NoFrame, Intraday(AuxNow(1005), TRUE)},
     vix_intraday |-> {NoFrame},
     smtp |-> {"ok"}]

InitVolume == InitOf(VolumeEnv)

NextVolume ==
    \/ Gate
    \/ LoadFtsemibDaily(VolumeWorld.ftse_daily)
    \/ LoadSpyDaily(VolumeWorld.spy_daily)
    \/ LoadVixDaily(VolumeWorld.vix_daily)
    \/ Join
    \/ SnapFtse(VolumeWorld.ftse_intraday)
    \/ SnapSpy(VolumeWorld.spy_intraday)
    \/ SnapVix(VolumeWorld.vix_intraday)
    \/ BuildFeatures
    \/ RunBacktest
    \/ Signal
    \/ PrintSignal
    \/ SendEmail(VolumeWorld.smtp)

SpecVolume == InitVolume /\ [][NextVolume]_vars

\* the rows of the trailing 20-row window ending at row i that hold a volume
TrailingObs(i) ==
    {j \in 1..Len(df) : i - 20 < j /\ j <= i /\ notna(df[j].Volume_for_z)}

\* the window's population standard deviation is zero: its volumes are equal
ZeroSpread(i) ==
    \A j, k \in TrailingObs(i) : df[j].Volume_for_z = df[k].Volume_for_z

\* C7: vol_z(t) is null whenever the trailing 20-row window holds fewer than
\* 20 volume observations or has zero standard deviation (the all-zero
\* volume column included), and it is never infinite
C7_VolZNullOnShortOrFlatWindow ==
    FeaturesBuilt =>
        \A i \in 1..Len(df) :
            /\ (Cardinality(TrailingObs(i)) < 20 \/ ZeroSpread(i)) => df[i].vol_z.k = "nan"
            /\ df[i].vol_z.k # "inf"

\* a built frame of more than 20 rows with a flat full window (null vol_z),
\* a full window with spread (known vol_z) and a window short of a volume
C7_Witness ==
    /\ FeaturesBuilt
    /\ \E i \in 20..Len(df) :
           Cardinality(TrailingObs(i)) = 20 /\ ZeroSpread(i) /\ df[i].vol_z.k = "nan"
    /\ \E i \in 20..Len(df) : df[i].vol_z.k = "num"
    /\ \E i \in 20..Len(df) : Cardinality(TrailingObs(i)) < 20

---------------------------------------------------------------------------
(* Whole runs (Spec): the downloads and the run's outcome                  *)

\* the download of fetch f was made and gave nothing: it raised or came
\* back empty
FetchFailed(f) ==
    /\ attempts[f] > 0
    /\ CASE f = "ftse_daily" -> snap.daily \in {"raise", "empty"}
         [] f = "spy_daily" -> spy.none
         [] f = "vix_daily" -> vix.none
         [] f = "ftse_intraday" -> snap.ftse.rows = <<>>
         [] f = "spy_intraday" -> snap.spy.rows = <<>>
         [] f = "vix_intraday" -> snap.vix.rows = <<>>

\* C9: a fetch of quotes that fails was attempted the fixed number of times
\* (3) in the run before it counts as failed
C9_FailedFetchExhaustedAttempts ==
    \A f \in Fetches : FetchFailed(f) => attempts[f] = 3

\* the FTSEMIB daily download of this run came back with no data
PrimaryReturnedNoData == attempts.ftse_daily > 0 /\ snap.daily = "empty"

\* C10: when the FTSEMIB daily download returns no data the run ends in an
\* error before any signal is evaluated: no other source is consulted, no
\* label is printed and no notification is sent
C10_EmptyPrimaryEndsRun ==
    PrimaryReturnedNoData =>
        /\ pc = "failed"
        /\ error = "RuntimeError"
        /\ \A f \in Fetches \ {"ftse_daily"} : attempts[f] = 0
        /\ signal_label = "none"
        /\ stdout = <<>>
        /\ emails = 0

\* a run whose FTSEMIB daily download came back empty and that has ended
C10_Witness ==
    /\ PrimaryReturnedNoData
    /\ pc = "failed"
    /\ attempts.ftse_daily = 1

\* the quote source gave nothing for SPY / for ^VIX in this run: the daily
\* download came back empty and so did the intraday one, once it was made
SpyEmpty ==
    /\ snap.spy_daily = "empty"
    /\ attempts.spy_intraday > 0 => snap.spy.kind = "empty"

VixEmpty ==
    /\ snap.vix_daily = "empty"
    /\ attempts.vix_intraday > 0 => snap.vix.kind = "empty"

\* the failures of the notification step, after the signal was printed
NotificationErrors == {"SystemExit", "SMTPException"}

\* C11: with FTSEMIB data loaded, an empty result for SPY or for ^VIX (daily
\* and intraday) does not fail the build: the run ends nowhere before the
\* notification step, and the auxiliary return is null on every row of the
\* built frame, the evaluated row included
C11_EmptyAuxKeepsRunning ==
    /\ (SpyEmpty \/ VixEmpty) => (pc = "failed" => error \in NotificationErrors)
    /\ (SpyEmpty /\ FeaturesBuilt) => \A i \in 1..Len(df) : isna(df[i].spy_ret)
    /\ (VixEmpty /\ FeaturesBuilt) => \A i \in 1..Len(df) : isna(df[i].vix_ret)
    /\ (SpyEmpty /\ Evaluated) => isna(EvaluatedRow.spy_ret)
    /\ (VixEmpty /\ Evaluated) => isna(EvaluatedRow.vix_ret)

\* a run with both auxiliaries empty that evaluated a frame of several rows
\* and sent its email
C11_Witness ==
    /\ SpyEmpty /\ VixEmpty
    /\ attempts.spy_intraday = 1 /\ attempts.vix_intraday = 1
    /\ pc = "done" /\ emails = 1
    /\ Len(df) >= 2
    /\ signal_label # "none"

\* the lines of stdout that read l
Printed(l) == {i \in 1..Len(stdout) : stdout[i].line = l}

\* a send was attempted and did not complete
DeliveryFailed == emails > 0 /\ Printed("[email] Inviata OK") = {}

\* C12: the send is attempted at most once in a run and only after the
\* signal label was computed; a failed delivery ends the run in an error of
\* its own, which no computation failure carries, with no further attempt
C12_SendOnceAfterLabel ==
    /\ emails <= 1
    /\ Cardinality(Printed("[email] Invio")) = emails
    /\ emails = 1 =>
          /\ signal_label \in {"LONG (overnight)", "FLAT"}
          /\ \E i \in Printed("SEGNALE") : stdout[i].label = signal_label
    /\ DeliveryFailed => pc = "failed" /\ error = "SMTPException"
    /\ emails = 0 => error # "SMTPException"

\* a run whose only send failed
C12_Witness ==
    /\ DeliveryFailed
    /\ emails = 1
    /\ pc = "failed"
    /\ signal_label = "FLAT"

\* the Rome time of day lies in 17:33..17:55, both ends included
InRunWindow == HM(17, 33) <= clock /\ clock <= HM(17, 55)

\* the run is not forced, the window is enforced and the time is outside it
OutsideEnforcedWindow ==
    ~env.FORCE_RUN /\ env.ENFORCE_RUN_WINDOW /\ ~InRunWindow

\* C13: a run downloads nothing, evaluates no signal and sends no email
\* exactly when FORCE_RUN is not 1, ENFORCE_RUN_WINDOW is 1 and the Rome
\* time is outside 17:33..17:55; a forced run and a run with the window not
\* enforced proceed to the download at any time
C13_RunGating ==
    /\ pc # "start" => (pc = "skipped" <=> OutsideEnforcedWindow)
    /\ pc = "skipped" =>
          /\ \A f \in Fetches : attempts[f] = 0
          /\ signal_label = "none"
          /\ Printed("SEGNALE") = {}
          /\ emails = 0
    /\ (pc \notin {"start", "skipped", "load_ftse"}) => attempts.ftse_daily = 1
    /\ (env.FORCE_RUN \/ ~env.ENFORCE_RUN_WINDOW) => pc # "skipped"

\* a run skipped half a minute after the window's last instant
C13_Witness ==
    /\ pc = "skipped"
    /\ clock = HM(17, 55) + 30
    /\ Printed("[skip]") # {}

\* C14: next_weekday(d) is the earliest date after d that falls Monday to
\* Friday (Friday, Saturday and Sunday give the following Monday), so the
\* forecast day main reports is a weekday strictly later than the FTSE data
\* day
C14_ForecastDayIsNextWeekday ==
    Evaluated =>
        LET d == days.data_day_ftse
            n == days.forecast_day
        IN  /\ d = EvaluatedRow.date
            /\ n > d
            /\ Weekday(n) \in 0..4
            /\ \A x \in (d + 1)..(n - 1) : Weekday(x) \in {5, 6}
            /\ Weekday(d) \in {4, 5, 6} => Weekday(n) = 0 /\ n - d <= 3
            /\ \A i \in Printed("SEGNALE") :
                   stdout[i].data_day_ftse = d /\ stdout[i].forecast_day = n

\* a signal on a Friday row, forecast for the Monday three days later
C14_Witness ==
    /\ Evaluated
    /\ Weekday(days.data_day_ftse) = 4
    /\ days.forecast_day = days.data_day_ftse + 3
    /\ Printed("SEGNALE") # {}

\* C15: in a run that emits a signal the evaluated row, the last of the
\* frame, carries FTSEMIB data (Open and Close not null): no SPY or ^VIX
\* snapshot creates it when there is no FTSE bar for today, and a row dated
\* today with ftse_source "daily" exists only if the FTSE daily download
\* held it
C15_EvaluatedRowHasPrimaryData ==
    Evaluated =>
        /\ days.data_day_ftse = EvaluatedRow.date
        /\ notna(EvaluatedRow.Open)
        /\ notna(EvaluatedRow.Close)
        /\ (HasDate(df, today_rome) /\ meta.ftse_source = "daily")
               => HasDate(ftse, today_rome)

\* the evaluated row of the build as it is: with FTSEMIB data, or a row of
\* today that an auxiliary snapshot opened with no FTSE bar
C15_EvaluatedRowAsBuilt ==
    Evaluated =>
        \/ notna(EvaluatedRow.Open) /\ notna(EvaluatedRow.Close)
        \/ /\ EvaluatedRow.date = today_rome
           /\ ~HasDate(ftse, today_rome)
           /\ meta.ftse_source = "daily"
           /\ meta.spy_source = "intraday" \/ meta.vix_source = "intraday"
           /\ isna(EvaluatedRow.Open) /\ isna(EvaluatedRow.Close)
           /\ isna(EvaluatedRow.gap_open)

\* a signal evaluated on a row of today that only the SPY snapshot filled
C15_Witness ==
    /\ Evaluated
    /\ EvaluatedRow.date = today_rome
    /\ ~HasDate(ftse, today_rome)
    /\ meta.ftse_source = "daily"
    /\ meta.spy_source = "intraday"
    /\ isna(EvaluatedRow.Open)
    /\ notna(EvaluatedRow.SPY_Close)
    /\ signal_label = "FLAT"

=============================================================================
